---- MODULE Spec2Model ----
(***************************************************************************)
(* A model of HL-MakePIP's three orchestration programs:                   *)
(*   create_pypirc     (Codebase/Setup/create_pypirc.py)                   *)
(*   register_to_pip   (Codebase/register_to_pip.py)                       *)
(*   register_to_pypi  (Codebase/register_to_pypi.py)                      *)
(* Each program is a single-threaded sequence of filesystem checks,        *)
(* console reads and child-process invocations.  The outcomes of the       *)
(* external world (what a read returns, how a child exits, what a build    *)
(* leaves under dist/) are nondeterministic choices.                       *)
(*                                                                         *)
(* Strings the code inspects or assembles (the repository selector, the    *)
(* token, command-line arguments) are sequences of one-character strings,  *)
(* so startswith, strip and concatenation are computed.                    *)
(***************************************************************************)
EXTENDS Integers, Sequences, FiniteSets, TLC

VARIABLES
    pc,             \* position of the running program
    \* ---- filesystem
    manifest,       \* <root>/pyproject.toml is a regular file
    distKind,       \* <root>/dist: "absent", "file" or "dir"
    distFiles,      \* names of the entries of dist/
    folderExists,   \* create_pypirc: `folder` exists
    parentExists,   \* create_pypirc: pypirc_path.parent exists
    pypirc,         \* create_pypirc: the target path, [kind, text]
    \* ---- process
    osName,         \* os.name
    environ,        \* os.environ of this process
    twineImportable,\* `import twine` succeeds
    io,             \* console events so far (prints and reads, in order)
    spawned,        \* child processes run so far: <<[cmd, env, code]>>
    ret,            \* <<v>> once the function returned v, << >> before
    exc,            \* exception the function raised (NoExc if none)
    exitStatus,     \* <<s>> once the script process exited with s
    \* ---- arguments and locals
    upload,         \* register_to_pip(upload=...)
    repository,     \* register_to_pip(repository=...)
    token,          \* register_to_pypi: token as returned by _prompt_token
    cmd,            \* command line under construction
    force,          \* create_pypirc: `force` of the latest call
    calls           \* create_pypirc: number of calls made

vars == <<pc, manifest, distKind, distFiles, folderExists, parentExists, pypirc,
          osName, environ, twineImportable, io, spawned, ret, exc, exitStatus,
          upload, repository, token, cmd, force, calls>>

fsPipVars == <<manifest, distKind, distFiles>>
pypircVars == <<folderExists, parentExists, pypirc, force, calls>>
procVars == <<osName, environ, twineImportable>>
argVars == <<upload, repository>>

\* ------------------------------------------------------------------ bounds
MaxFiles == 2      \* entries a dist/ directory may hold
MaxTail == 1       \* characters of a selector after its prefix
MaxTok == 2        \* characters typed at a prompt
MaxExit == 2       \* ordinary child exit codes 0..MaxExit
MaxSig == 1        \* fatal signals 1..MaxSig (returncode -s)
MaxCalls == 3      \* create_pypirc calls in one behaviour

\* ------------------------------------------------------------------ values
\* Python's None, and a local not assigned yet: one-element sequences that no
\* sequence of characters equals.
None == << "None" >>
Unset == << "<unset>" >>
NoExc == [type |-> "none"]

SeqsUpTo(S, n) == UNION {[1..k -> S] : k \in 0..n}

\* Python's str.startswith
StartsWith(s, p) == Len(s) >= Len(p) /\ SubSeq(s, 1, Len(p)) = p

IsSpace(c) == c = " "

RECURSIVE LStrip(_)
LStrip(s) == IF s # <<>> /\ IsSpace(Head(s)) THEN LStrip(Tail(s)) ELSE s

RECURSIVE RStrip(_)
RStrip(s) ==
    IF s # <<>> /\ IsSpace(s[Len(s)]) THEN RStrip(SubSeq(s, 1, Len(s) - 1)) ELSE s

\* Python's str.strip()
Strip(s) == RStrip(LStrip(s))

\* what may be typed at a prompt
TypedLines == SeqsUpTo({" ", "t"}, MaxTok)

\* os.environ: PATH and the two variables twine reads.
EnvVars == {"PATH", "TWINE_USERNAME", "TWINE_PASSWORD"}
DefaultEnviron == [v \in EnvVars |-> IF v = "PATH" THEN << "/", "b" >> ELSE Unset]

\* Console events: a print of a message, or a read with what it delivered
\* (RaiseMark when the read raised instead).
RaiseMark == << "<raise>" >>
Printed(msg) == [ev |-> "print", val |-> << msg >>]
ReadEvent(how, val) == [ev |-> how, val |-> val]

\* ============================================================ create_pypirc
\* The template written by create_pypirc, line by line.
PYPIRC_CONTENT ==
    << "[distutils]",
       "index-servers =",
       "    pypi",
       "    testpypi",
       "",
       "[pypi]",
       "repository = https://upload.pypi.org/legacy/",
       "username = __token__",
       "password = pypi-XXXXXXXXXXXXXXXXXXXXXXXXXXXXXXXXXXXXXXXXXXXX",
       "",
       "[testpypi]",
       "repository = https://test.pypi.org/legacy/",
       "username = __token__",
       "password = pypi-XXXXXXXXXXXXXXXXXXXXXXXXXXXXXXXXXXXXXXXXXXXX" >>

\* Files a target path may already hold: the template, the template with a
\* real token filled in, an unrelated configuration, an empty file.
ExistingContents ==
    { PYPIRC_CONTENT,
      [PYPIRC_CONTENT EXCEPT ![9] = "password = pypi-REALTOKEN"],
      << "[pypi]", "username = alice" >>,
      << >> }

Absent == [kind |-> "absent", text |-> << >>]
File(text) == [kind |-> "file", text |-> text]

\* Path.exists()
PathExists(p) == p.kind # "absent"

KeepsExistingIgnoringForce(p, f) == PathExists(p)

\* create_pypirc line 28: `if pypirc_path.exists() and not force`
KeepsExisting(p, f) == PathExists(p) /\ ~f

\* Path.write_text(text): the path is a regular file holding text afterwards.
WriteText(p, text) == File(text)

\* One call create_pypirc(folder, pypirc_path, f).
CreatePypircCall(f) ==
    /\ pc = "pypirc"
    /\ calls < MaxCalls
    /\ calls' = calls + 1
    /\ force' = f
    /\ folderExists' = TRUE
    /\ parentExists' = TRUE
    /\ IF KeepsExisting(pypirc, f)
       THEN /\ io' = Append(io, Printed("already exists"))
            /\ pypirc' = pypirc
       ELSE /\ io' = Append(io, IF PathExists(pypirc) THEN Printed("Overwriting")
                                                     ELSE Printed("Creating"))
            /\ pypirc' = WriteText(pypirc, PYPIRC_CONTENT)
    /\ UNCHANGED <<pc, fsPipVars, procVars, argVars, spawned, ret, exc,
                   exitStatus, token, cmd>>

create_pypirc == \E f \in BOOLEAN : CreatePypircCall(f)

\* Between calls the operator may edit the file (fill in a real token, replace
\* it) or delete it; create_pypirc itself never reads the content.
OperatorEditsPypirc ==
    /\ pc = "pypirc"
    /\ pypirc.kind = "file"
    /\ pypirc' \in ({File(t) : t \in ExistingContents} \cup {Absent}) \ {pypirc}
    /\ UNCHANGED <<pc, folderExists, parentExists, force, calls, fsPipVars,
                   procVars, argVars, io, spawned, ret, exc, exitStatus,
                   token, cmd>>

\* Values of the variables a program does not use.
PipArgsUnused == upload = FALSE /\ repository = None
PypircUnused ==
    /\ folderExists = FALSE /\ parentExists = FALSE /\ pypirc = Absent
    /\ force = FALSE /\ calls = 0
FreshProcess ==
    /\ io = << >> /\ spawned = << >> /\ ret = << >> /\ exc = NoExc
    /\ exitStatus = << >> /\ token = Unset /\ cmd = << >>

InitPypirc ==
    /\ pc = "pypirc"
    /\ pypirc \in {Absent} \cup {File(t) : t \in ExistingContents}
    /\ parentExists \in (IF PathExists(pypirc) THEN {TRUE} ELSE BOOLEAN)
    /\ folderExists \in BOOLEAN
    /\ force = FALSE /\ calls = 0
    /\ manifest = FALSE /\ distKind = "absent" /\ distFiles = {}
    /\ osName = "posix" /\ environ = DefaultEnviron /\ twineImportable = FALSE
    /\ PipArgsUnused
    /\ FreshProcess

NextPypirc == create_pypirc \/ OperatorEditsPypirc

SpecPypirc == InitPypirc /\ [][NextPypirc]_vars

\* ---------------------------------------------------------------- C8
HasLine(text, line) == \E i \in 1..Len(text) : text[i] = line

TemplateShape ==
    /\ HasLine(PYPIRC_CONTENT, "[pypi]")
    /\ HasLine(PYPIRC_CONTENT, "[testpypi]")
    /\ \A h \in {"[pypi]", "[testpypi]"} :
         \E i \in 1..Len(PYPIRC_CONTENT) - 2 :
            PYPIRC_CONTENT[i] = h /\ PYPIRC_CONTENT[i + 2] = "username = __token__"

\* a step of create_pypirc (the operator's edits are not calls)
IsPypircCall == calls' = calls + 1

\* C8: a create_pypirc call with force=False on an existing file leaves the
\* file unchanged, whatever it holds; a call changes the file only when the
\* file was absent or force=True, and every call made when the file was absent
\* or with force=True leaves exactly the template, which holds the [pypi] and
\* [testpypi] sections with username __token__.
C8_ForceGuardsExistingFile ==
    [][IsPypircCall =>
         /\ (PathExists(pypirc) /\ ~force') => pypirc' = pypirc
         /\ (pypirc' # pypirc) => (~PathExists(pypirc) \/ force')
         /\ (~PathExists(pypirc) \/ force') =>
                /\ pypirc' = File(PYPIRC_CONTENT)
                /\ TemplateShape]_vars

\* an existing file that differs from the template has survived a call made
\* without force
C8_Witness ==
    /\ calls > 0 /\ ~force
    /\ io[Len(io)] = Printed("already exists")
    /\ pypirc.kind = "file" /\ pypirc.text # PYPIRC_CONTENT

\* ========================================================== register_to_pip
\* Command-line words, as sequences of characters.
Exe == << "p", "y", "t", "h", "o", "n" >>                \* sys.executable
ArgM == << "-", "m" >>
ArgBuild == << "b", "u", "i", "l", "d" >>
ArgWheel == << "-", "-", "w", "h", "e", "e", "l" >>
ArgSdist == << "-", "-", "s", "d", "i", "s", "t" >>
ArgTwine == << "t", "w", "i", "n", "e" >>
ArgUpload == << "u", "p", "l", "o", "a", "d" >>
DistGlob == << "/", "r", "/", "d", "i", "s", "t", "/", "*" >>  \* str(dist_dir / "*")
FlagUrl ==
    << "-", "-", "r", "e", "p", "o", "s", "i", "t", "o", "r", "y",
       "-", "u", "r", "l", "=" >>
FlagNamed ==
    << "-", "-", "r", "e", "p", "o", "s", "i", "t", "o", "r", "y", "=" >>
HttpPrefix == << "h", "t", "t", "p", ":", "/", "/" >>
HttpsPrefix == << "h", "t", "t", "p", "s", ":", "/", "/" >>

\* Repository selectors tried: a prefix followed by up to MaxTail characters.
\* The empty prefix with the empty tail is the empty string.
SelectorPrefixes ==
    { << >>,
      HttpPrefix,
      HttpsPrefix,
      << "h", "t", "t", "p", ":", "/" >>,
      << "H", "T", "T", "P", ":", "/", "/" >>,
      << "t", "e", "s", "t", "p", "y", "p", "i" >> }
Selectors ==
    {p \o t : p \in SelectorPrefixes, t \in SeqsUpTo({"x", "/"}, MaxTail)}

\* Names of dist/ entries; a name's place in NameOf is its place in sorted
\* path order.
NameOf == << "a", "b", "c", "d" >>
FileNames == {NameOf[i] : i \in 1..MaxFiles}
Rank(n) == CHOOSE i \in 1..Len(NameOf) : NameOf[i] = n

\* returncode of a child: an exit code, or -s when signal s killed it
ExitCodes == (0..MaxExit) \cup {255} \cup {0 - sig : sig \in 1..MaxSig}

\* Python's list.insert(i, x) for 0 <= i <= len(list)
InsertAt(list, i, x) == SubSeq(list, 1, i) \o << x >> \o SubSeq(list, i + 1, Len(list))

\* truth value of an Optional[str]
Truthy(r) == r # None /\ r # << >>

IsUrl(r) == StartsWith(r, HttpPrefix) \/ StartsWith(r, HttpsPrefix)

BuildCmd == << Exe, ArgM, ArgBuild, ArgWheel, ArgSdist >>

UploadCmdNotNone(repo) ==
    LET base == << Exe, ArgM, ArgTwine, ArgUpload, DistGlob >>
    IN  IF repo # None
        THEN IF IsUrl(repo) THEN InsertAt(base, 3, FlagUrl \o repo)
                            ELSE InsertAt(base, 3, FlagNamed \o repo)
        ELSE base

\* register_to_pip lines 113-123: the upload command for a selector
UploadCmd(repo) ==
    LET base == << Exe, ArgM, ArgTwine, ArgUpload, DistGlob >>
    IN  IF Truthy(repo)
        THEN IF IsUrl(repo) THEN InsertAt(base, 3, FlagUrl \o repo)
                            ELSE InsertAt(base, 3, FlagNamed \o repo)
        ELSE base

RunCmdExcSignalsIgnored(c, code) ==
    IF code > 0 THEN [type |-> "RuntimeError", cmd |-> c, code |-> code] ELSE NoExc

\* _run_cmd lines 30-33: the exception raised for a child's returncode
RunCmdExc(c, code) ==
    IF code # 0 THEN [type |-> "RuntimeError", cmd |-> c, code |-> code] ELSE NoExc

ManifestMissingNever(m) == FALSE

\* register_to_pip line 72: `if not pyproject.is_file()`
ManifestMissing(m) == ~m

SkipsUploadNever(u) == FALSE

\* register_to_pip line 94: `if not upload`
SkipsUpload(u) == ~u

Raise(e) == exc' = e /\ pc' = "raised" /\ UNCHANGED ret
Return(v) == ret' = << v >> /\ pc' = "returned" /\ UNCHANGED exc

\* lines 64-76
PipCheckManifest ==
    /\ pc = "pip_start"
    /\ IF ManifestMissing(manifest)
       THEN Raise([type |-> "FileNotFoundError", path |-> "pyproject.toml"])
       ELSE pc' = "pip_build" /\ UNCHANGED <<exc, ret>>
    /\ UNCHANGED <<fsPipVars, pypircVars, procVars, argVars, io, spawned,
                   exitStatus, token, cmd>>

\* lines 82-86: _run_cmd on the build command.  The build child may create
\* dist/ and write any files into it, whatever its exit code.
PipBuild ==
    /\ pc = "pip_build"
    /\ \E code \in ExitCodes, k \in {distKind, "dir"} :
         /\ distKind' = k
         /\ distFiles' \in (IF k = "dir" THEN SUBSET FileNames ELSE {{}})
         /\ spawned' = Append(spawned, [cmd |-> BuildCmd, env |-> environ,
                                        code |-> code])
         /\ IF RunCmdExc(BuildCmd, code) # NoExc
            THEN Raise(RunCmdExc(BuildCmd, code))
            ELSE pc' = "pip_built" /\ UNCHANGED <<exc, ret>>
    /\ UNCHANGED <<manifest, pypircVars, procVars, argVars, io, exitStatus,
                   token, cmd>>

\* lines 88-123: the dist/ check, the upload switch, the twine import and the
\* construction of the upload command
PipAfterBuild ==
    /\ pc = "pip_built"
    /\ IF distKind # "dir"
       THEN Raise([type |-> "FileNotFoundError", path |-> "dist"]) /\ UNCHANGED cmd
       ELSE IF SkipsUpload(upload)
       THEN Return(None) /\ UNCHANGED cmd
       ELSE IF ~twineImportable
       THEN Raise([type |-> "RuntimeError", msg |-> "Twine is not installed"])
            /\ UNCHANGED cmd
       ELSE /\ cmd' = UploadCmd(repository)
            /\ pc' = "pip_upload"
            /\ UNCHANGED <<exc, ret>>
    /\ UNCHANGED <<fsPipVars, pypircVars, procVars, argVars, io, spawned,
                   exitStatus, token>>

\* line 125: _run_cmd on the upload command
PipUpload ==
    /\ pc = "pip_upload"
    /\ \E code \in ExitCodes :
         /\ spawned' = Append(spawned, [cmd |-> cmd, env |-> environ,
                                        code |-> code])
         /\ IF RunCmdExc(cmd, code) # NoExc
            THEN Raise(RunCmdExc(cmd, code))
            ELSE Return(None)
    /\ UNCHANGED <<fsPipVars, pypircVars, procVars, argVars, io, exitStatus,
                   token, cmd>>

InitPip ==
    /\ pc = "pip_start"
    /\ manifest \in BOOLEAN
    /\ distKind \in {"absent", "file", "dir"}
    /\ distFiles \in (IF distKind = "dir" THEN SUBSET FileNames ELSE {{}})
    /\ upload \in BOOLEAN
    /\ repository \in Selectors \cup {None}
    /\ twineImportable \in BOOLEAN
    /\ osName = "posix" /\ environ = DefaultEnviron
    /\ PypircUnused
    /\ FreshProcess

NextPip == PipCheckManifest \/ PipBuild \/ PipAfterBuild \/ PipUpload

SpecPip == InitPip /\ [][NextPip]_vars

\* ---------------------------------------------------------------- C2..C5
IsBuildCmd(c) == c = BuildCmd
IsUploadCmd(c) == \E j \in 1..Len(c) : c[j] = ArgTwine

\* C2: without pyproject.toml the call raises FileNotFoundError naming the
\* expected path and no child process is ever spawned, whatever upload and
\* repository are.
C2_NoManifestNoChild ==
    ~manifest =>
        /\ spawned = << >>
        /\ ret = << >>
        /\ pc \in {"pip_start", "raised"}
        /\ pc = "raised" =>
              exc = [type |-> "FileNotFoundError", path |-> "pyproject.toml"]

C2_Witness ==
    /\ ~manifest /\ pc = "raised" /\ upload /\ Truthy(repository)
    /\ twineImportable /\ distKind = "dir"

\* C3: an upload child is spawned only with upload=True, as the second child,
\* after a build child that exited 0, with dist/ a directory (and twine
\* importable); with upload=False a normal return follows exactly one child,
\* the build; and no step after the build child changes dist/.
C3_UploadOnlyAfterBuild ==
    /\ [](/\ \A i \in 1..Len(spawned) :
               IsUploadCmd(spawned[i].cmd) =>
                  /\ upload
                  /\ i = 2
                  /\ IsBuildCmd(spawned[1].cmd) /\ spawned[1].code = 0
                  /\ distKind = "dir"
                  /\ twineImportable
          /\ Len(spawned) <= 2
          /\ (pc = "returned" /\ ~upload) =>
                /\ Len(spawned) = 1 /\ IsBuildCmd(spawned[1].cmd)
                /\ spawned[1].code = 0
                /\ ret = << None >>)
    /\ [][pc # "pip_build" => UNCHANGED <<distKind, distFiles>>]_vars

C3_Witness ==
    /\ pc = "returned" /\ ~upload /\ Len(spawned) = 1
    /\ distKind = "dir" /\ distFiles # {} /\ twineImportable

\* C4: with a manifest, a build child exiting with c # 0 makes the call raise
\* RuntimeError carrying the build command line and exactly c; nothing is
\* returned, the build is not run again and no other child follows.
C4_BuildFailureRaises ==
    (Len(spawned) >= 1 /\ spawned[1].code # 0) =>
        /\ manifest
        /\ pc = "raised"
        /\ exc = [type |-> "RuntimeError", cmd |-> BuildCmd,
                  code |-> spawned[1].code]
        /\ ret = << >>
        /\ Len(spawned) = 1

C4_Witness ==
    /\ pc = "raised" /\ Len(spawned) = 1 /\ spawned[1].code < 0 /\ upload

NumArgs(c, prefix) == Cardinality({j \in 1..Len(c) : StartsWith(c[j], prefix)})
HasArg(c, a) == \E j \in 1..Len(c) : c[j] = a
IsRepoFlag(a) == StartsWith(a, FlagUrl) \/ StartsWith(a, FlagNamed)
IsNoRepoFlag(a) == ~IsRepoFlag(a)

\* the base invocation, in order, and the dist/* glob last
KeepsBase(c) ==
    /\ SelectSeq(c, IsNoRepoFlag) = << Exe, ArgM, ArgTwine, ArgUpload, DistGlob >>
    /\ c[Len(c)] = DistGlob

UrlShape(c, r) ==
    /\ NumArgs(c, FlagUrl) = 1 /\ HasArg(c, FlagUrl \o r)
    /\ NumArgs(c, FlagNamed) = 0
NamedShape(c, r) ==
    /\ NumArgs(c, FlagNamed) = 1 /\ HasArg(c, FlagNamed \o r)
    /\ NumArgs(c, FlagUrl) = 0
BareShape(c) == NumArgs(c, FlagUrl) = 0 /\ NumArgs(c, FlagNamed) = 0

UploadCmdBuilt == pc = "pip_upload" \/ Len(spawned) = 2

\* C5 as stated: the URL flag for an http(s):// selector, the named flag for
\* every other selector that is not None, no flag for None.
C5_FlagForEverySelector ==
    UploadCmdBuilt =>
        /\ KeepsBase(cmd)
        /\ ~(NumArgs(cmd, FlagUrl) > 0 /\ NumArgs(cmd, FlagNamed) > 0)
        /\ IF repository = None THEN BareShape(cmd)
           ELSE IF IsUrl(repository) THEN UrlShape(cmd, repository)
           ELSE NamedShape(cmd, repository)

\* C5 (amended): the URL flag for an http(s):// selector, the named flag for
\* every other non-empty selector, and no flag when the selector is None or
\* the empty string; always the base invocation in order, the dist/* glob
\* last, and never both flags.
C5_FlagForNonEmptySelector ==
    UploadCmdBuilt =>
        /\ KeepsBase(cmd)
        /\ ~(NumArgs(cmd, FlagUrl) > 0 /\ NumArgs(cmd, FlagNamed) > 0)
        /\ IF repository = None \/ repository = << >> THEN BareShape(cmd)
           ELSE IF IsUrl(repository) THEN UrlShape(cmd, repository)
           ELSE NamedShape(cmd, repository)

C5_Witness ==
    /\ Len(spawned) = 2 /\ spawned[2].cmd = cmd
    /\ repository = HttpsPrefix \o << "x" >>
    /\ cmd[4] = FlagUrl \o repository

\* ========================================================= register_to_pypi
Py == << "p", "y" >>
Python3 == << "p", "y", "t", "h", "o", "n", "3" >>
DistDirPath == << "/", "r", "/", "d", "i", "s", "t", "/" >>   \* str(dist_dir) + "/"
TokenUser == << "_", "_", "t", "o", "k", "e", "n", "_", "_" >>

\* str(f) for an entry f of dist/
PathOf(n) == DistDirPath \o << n >>

\* the orders in which Path.glob may yield the entries
GlobOrders(S) ==
    {f \in [1..Cardinality(S) -> S] : \A i, j \in DOMAIN f : i # j => f[i] # f[j]}

RECURSIVE InsertSorted(_, _)
InsertSorted(sorted, n) ==
    IF sorted = << >> THEN << n >>
    ELSE IF Rank(n) <= Rank(Head(sorted)) THEN << n >> \o sorted
    ELSE << Head(sorted) >> \o InsertSorted(Tail(sorted), n)

RECURSIVE Sorted(_)
Sorted(list) ==
    IF list = << >> THEN << >> ELSE InsertSorted(Sorted(Tail(list)), Head(list))

\* lines 77-80
PythonCmd(os) ==
    IF os = "nt" THEN << Py, ArgM, ArgTwine, ArgUpload >>
                 ELSE << Python3, ArgM, ArgTwine, ArgUpload >>

\* lines 71, 82: python_cmd + [str(f) for f in sorted(glob)]
UploadArgv(os, files) ==
    PythonCmd(os) \o [i \in 1..Len(files) |-> PathOf(Sorted(files)[i])]

ChildEnvWithoutPassword(env, tok) == [env EXCEPT !["TWINE_USERNAME"] = TokenUser]

\* lines 92-94: the copy of os.environ handed to the child
ChildEnv(env, tok) ==
    [env EXCEPT !["TWINE_USERNAME"] = TokenUser, !["TWINE_PASSWORD"] = tok]

\* exceptions the terminal check or the hidden read may raise
HiddenInputErrors == {"OSError", "EOFError", "ValueError"}

CatchesOnlyOSError(e) == e = "OSError"

\* line 25: `except Exception`
CatchesException(e) == e \in {"OSError", "EOFError", "ValueError", "Exception"}

UploadReturnCollapsed(code) == IF code = 0 THEN 0 ELSE 1

\* line 114: `return result.returncode`
UploadReturn(code) == code

TokenMissingNever(tok) == FALSE

\* line 67: `if not token`
TokenMissing(tok) == tok = << >>

\* returncodes subprocess.run reports: negative ones only where children die
\* by signal
ChildCodes(os) == IF os = "nt" THEN {c \in ExitCodes : c >= 0} ELSE ExitCodes

\* exit status of a process ending by SystemExit(n): the low 8 bits on POSIX
ExitStatusOf(os, n) == IF os = "nt" THEN n ELSE n % 256

pypiFrame == <<manifest, distKind, distFiles, pypircVars, procVars, argVars>>

\* lines 42-60: the dist/ existence check and the instructions
PypiLocateDist ==
    /\ pc = "pypi_start"
    /\ IF distKind = "absent"
       THEN /\ io' = Append(io, Printed("[ERROR] dist/ directory not found"))
            /\ Return(1)
       ELSE /\ io' = Append(io, Printed("PyPI Upload Helper"))
            /\ pc' = "pypi_ack"
            /\ UNCHANGED <<ret, exc>>
    /\ UNCHANGED <<pypiFrame, spawned, exitStatus, token, cmd>>

\* line 61: input("Press ENTER ..."); the line read is discarded
PypiAck ==
    /\ pc = "pypi_ack"
    /\ \/ /\ io' = Append(io, ReadEvent("input_ack", << >>))
          /\ pc' = "pt_isatty"
          /\ UNCHANGED <<ret, exc>>
       \/ /\ io' = Append(io, ReadEvent("input_ack", RaiseMark))
          /\ Raise([type |-> "EOFError"])
    /\ UNCHANGED <<pypiFrame, spawned, exitStatus, token, cmd>>

\* _prompt_token line 22: sys.stdin.isatty()
PromptIsatty ==
    /\ pc = "pt_isatty"
    /\ \/ /\ io' = Append(io, ReadEvent("isatty", << "True" >>))
          /\ pc' = "pt_getpass"
          /\ UNCHANGED <<ret, exc>>
       \/ /\ io' = Append(io, ReadEvent("isatty", << "False" >>))
          /\ pc' = "pt_visible"
          /\ UNCHANGED <<ret, exc>>
       \/ \E e \in HiddenInputErrors :
             /\ io' = Append(io, ReadEvent("isatty", RaiseMark))
             /\ IF CatchesException(e)
                THEN pc' = "pt_visible" /\ UNCHANGED <<ret, exc>>
                ELSE Raise([type |-> e])
    /\ UNCHANGED <<pypiFrame, spawned, exitStatus, token, cmd>>

\* _prompt_token line 24: getpass.getpass(prompt).strip()
PromptGetpass ==
    /\ pc = "pt_getpass"
    /\ \/ \E raw \in TypedLines :
             /\ io' = Append(io, ReadEvent("getpass", raw))
             /\ token' = Strip(raw)
             /\ pc' = "pypi_token"
             /\ UNCHANGED <<ret, exc>>
       \/ \E e \in HiddenInputErrors :
             /\ io' = Append(io, ReadEvent("getpass", RaiseMark))
             /\ UNCHANGED token
             /\ IF CatchesException(e)
                THEN pc' = "pt_visible" /\ UNCHANGED <<ret, exc>>
                ELSE Raise([type |-> e])
    /\ UNCHANGED <<pypiFrame, spawned, exitStatus, cmd>>

\* _prompt_token lines 30-31: the notice and input(prompt).strip()
PromptVisible ==
    /\ pc = "pt_visible"
    /\ \/ \E raw \in TypedLines :
             /\ io' = io \o << Printed("(getpass not available here)"),
                               ReadEvent("input_token", raw) >>
             /\ token' = Strip(raw)
             /\ pc' = "pypi_token"
             /\ UNCHANGED <<ret, exc>>
       \/ /\ io' = io \o << Printed("(getpass not available here)"),
                            ReadEvent("input_token", RaiseMark) >>
          /\ UNCHANGED token
          /\ Raise([type |-> "EOFError"])
    /\ UNCHANGED <<pypiFrame, spawned, exitStatus, cmd>>

\* lines 67-90: the token check, the listing of dist/ and the command line
PypiPrepare ==
    /\ pc = "pypi_token"
    /\ IF TokenMissing(token)
       THEN /\ io' = Append(io, Printed("[ERROR] No token entered"))
            /\ Return(1)
            /\ UNCHANGED cmd
       ELSE IF distFiles = {}
       THEN /\ io' = Append(io, Printed("[ERROR] No files found in dist/"))
            /\ Return(1)
            /\ UNCHANGED cmd
       ELSE /\ \E order \in GlobOrders(distFiles) : cmd' = UploadArgv(osName, order)
            /\ io' = Append(io, Printed("Running"))
            /\ pc' = "pypi_spawn"
            /\ UNCHANGED <<ret, exc>>
    /\ UNCHANGED <<pypiFrame, spawned, exitStatus, token>>

\* lines 92-114: the child's environment, subprocess.run and the result
PypiSpawn ==
    /\ pc = "pypi_spawn"
    /\ \/ /\ io' = Append(io, Printed("[ERROR] Failed to run twine command"))
          /\ Return(1)
          /\ UNCHANGED spawned
       \/ \E code \in ChildCodes(osName) :
             /\ spawned' = Append(spawned, [cmd |-> cmd,
                                            env |-> ChildEnv(environ, token),
                                            code |-> code])
             /\ io' = Append(io, IF code = 0 THEN Printed("Upload completed")
                                            ELSE Printed("twine exited with code"))
             /\ Return(UploadReturn(code))
    /\ UNCHANGED <<pypiFrame, exitStatus, token, cmd>>

\* lines 117-126: raise SystemExit(main()); an uncaught exception ends the
\* interpreter with status 1
PypiExit ==
    /\ pc \in {"returned", "raised"}
    /\ exitStatus' = IF pc = "returned" THEN << ExitStatusOf(osName, ret[1]) >>
                                        ELSE << 1 >>
    /\ pc' = "exited"
    /\ UNCHANGED <<pypiFrame, io, spawned, ret, exc, token, cmd>>

InitPypi ==
    /\ pc = "pypi_start"
    /\ distKind \in {"absent", "file", "dir"}
    /\ distFiles \in (IF distKind = "dir" THEN SUBSET FileNames ELSE {{}})
    /\ osName \in {"nt", "posix"}
    /\ environ \in {[DefaultEnviron EXCEPT !["TWINE_USERNAME"] = u,
                                           !["TWINE_PASSWORD"] = w] :
                       u \in {Unset, << "u" >>}, w \in {Unset, << "o" >>}}
    /\ manifest = FALSE /\ twineImportable = FALSE
    /\ PipArgsUnused
    /\ PypircUnused
    /\ FreshProcess

NextPypi ==
    \/ PypiLocateDist \/ PypiAck
    \/ PromptIsatty \/ PromptGetpass \/ PromptVisible
    \/ PypiPrepare \/ PypiSpawn \/ PypiExit

SpecPypi == InitPypi /\ [][NextPypi]_vars

\* ---------------------------------------------------------------- C1, C6, C7, C9, C10
IsRead(e) == e.ev \in {"input_ack", "getpass", "input_token"}
Reads == {i \in 1..Len(io) : IsRead(io[i])}
\* register_to_pypi has returned (and the process may have exited since)
Finished == pc \in {"returned", "exited"} /\ ret # << >>
Delivered(e) == e.val # RaiseMark

\* C1: with dist/ present but holding no files, the call returns 1, and by the
\* time it returns neither the ENTER acknowledgement nor the token has been
\* read on that run.
C1_EmptyDistFailsBeforePrompt ==
    (distKind = "dir" /\ distFiles = {} /\ Finished) =>
        /\ ret = << 1 >>
        /\ Reads = {}

\* C6: whatever returncode the child ends with, register_to_pypi returns it
\* unchanged; when the child exits with code c (0..255) the process exit status
\* is c as well; and 1 is returned only after a local precondition failure
\* (no child ran) or when the child itself ended with 1.
C6_ExitCodeVerbatim ==
    /\ (Finished /\ spawned # << >>) =>
          /\ Len(spawned) = 1
          /\ ret = << spawned[1].code >>
    /\ (pc = "exited" /\ spawned # << >> /\ spawned[1].code >= 0) =>
          exitStatus = << spawned[1].code >>
    /\ (Finished /\ ret = << 1 >>) =>
          \/ /\ spawned = << >>
             /\ io[Len(io)] \in
                  { Printed("[ERROR] dist/ directory not found"),
                    Printed("[ERROR] No token entered"),
                    Printed("[ERROR] No files found in dist/"),
                    Printed("[ERROR] Failed to run twine command") }
          \/ /\ spawned # << >> /\ spawned[1].code = 1

C6_Witness ==
    /\ pc = "exited" /\ Len(spawned) = 1 /\ spawned[1].code = 2
    /\ ret = << 2 >> /\ exitStatus = << 2 >>

AllSpaces(line) == \A i \in 1..Len(line) : line[i] = " "

\* the read that delivered the token, once _prompt_token has returned
TokenRead == io[CHOOSE i \in Reads : \A j \in Reads : j <= i]
TokenCollected == token # Unset /\ pc \notin {"pt_isatty", "pt_getpass", "pt_visible"}

\* C7: once the token is collected and turns out empty - nothing typed, or only
\* whitespace - the call returns 1 and no child process is launched.
C7_EmptyTokenNoChild ==
    TokenCollected =>
        /\ (AllSpaces(TokenRead.val) <=> token = << >>)
        /\ (AllSpaces(TokenRead.val) /\ pc # "pypi_token") =>
              /\ Finished
              /\ ret = << 1 >>
              /\ spawned = << >>
              /\ cmd = << >>

C7_Witness ==
    /\ pc = "returned" /\ ret = << 1 >> /\ token = << >>
    /\ TokenRead = ReadEvent("getpass", << " ", " " >>)
    /\ distFiles # {}

\* the command line, from os.name and the entries of dist/ alone
IsArgvOf(c, os, files) ==
    /\ Len(c) = 4 + Cardinality(files)
    /\ c[1] = (IF os = "nt" THEN Py ELSE Python3)
    /\ c[2] = ArgM /\ c[3] = ArgTwine /\ c[4] = ArgUpload
    /\ \A n \in files : \E i \in 5..Len(c) : c[i] = DistDirPath \o << n >>
    /\ \A i, j \in 5..Len(c) :
          i < j => Rank(c[i][Len(c[i])]) < Rank(c[j][Len(c[j])])

\* C9: the child's command line is the fixed invocation followed by the paths
\* of dist/ in sorted order - a function of os.name and dist/ alone, so the
\* same for every token; its environment is os.environ with TWINE_USERNAME
\* set to __token__ and TWINE_PASSWORD to the token; at most one child is
\* run; and os.environ itself never changes.
C9_TokenOnlyInChildEnv ==
    /\ [](/\ Len(spawned) <= 1
          /\ \A i \in 1..Len(spawned) :
               /\ IsArgvOf(spawned[i].cmd, osName, distFiles)
               /\ spawned[i].env["TWINE_USERNAME"] = TokenUser
               /\ spawned[i].env["TWINE_PASSWORD"] = token
               /\ \A v \in EnvVars \ {"TWINE_USERNAME", "TWINE_PASSWORD"} :
                     spawned[i].env[v] = environ[v]
               /\ DOMAIN spawned[i].env = EnvVars)
    /\ [][environ' = environ]_vars

C9_Witness ==
    /\ Len(spawned) = 1 /\ Cardinality(distFiles) = 2
    /\ environ["TWINE_PASSWORD"] = << "o" >>
    /\ spawned[1].env["TWINE_PASSWORD"] = << "t", "t" >>

\* the token is the line read without its leading and trailing spaces
IsStripped(tok, line) ==
    /\ \E a, b \in 0..Len(line) :
          /\ a + b <= Len(line)
          /\ tok = SubSeq(line, a + 1, Len(line) - b)
          /\ \A i \in (1..a) \cup ((Len(line) - b + 1)..Len(line)) : line[i] = " "
    /\ tok # << >> => (tok[1] # " " /\ tok[Len(tok)] # " ")

\* C10: _prompt_token raises only when the visible read itself fails; the
\* hidden read is attempted only right after isatty() answered True; when
\* isatty() answers False or raises, or the hidden read raises, the visible
\* read is made next; a hidden read that succeeds is followed by no visible
\* read; and the token returned is the stripped line of the read made last.
C10_FallsBackToVisibleInput ==
    /\ \A i \in 1..Len(io) :
          /\ io[i].ev = "getpass" =>
                i > 1 /\ io[i - 1] = ReadEvent("isatty", << "True" >>)
          /\ (io[i].ev = "isatty" /\ io[i].val # << "True" >>) =>
                /\ pc # "raised" \/ Len(io) > i
                /\ Len(io) > i =>
                      /\ io[i + 1] = Printed("(getpass not available here)")
                      /\ io[i + 2].ev = "input_token"
                /\ Len(io) = i => pc = "pt_visible"
          /\ (io[i].ev = "getpass" /\ ~Delivered(io[i])) =>
                /\ pc # "raised" \/ Len(io) > i
                /\ Len(io) > i =>
                      /\ io[i + 1] = Printed("(getpass not available here)")
                      /\ io[i + 2].ev = "input_token"
                /\ Len(io) = i => pc = "pt_visible"
          /\ (io[i].ev = "getpass" /\ Delivered(io[i])) =>
                \A j \in 1..Len(io) : io[j].ev # "input_token"
    /\ TokenCollected =>
          /\ TokenRead.ev \in {"getpass", "input_token"}
          /\ Delivered(TokenRead)
          /\ IsStripped(token, TokenRead.val)
    /\ (pc = "raised") =>
          /\ exc = [type |-> "EOFError"]
          /\ io[Len(io)] \in {ReadEvent("input_ack", RaiseMark),
                              ReadEvent("input_token", RaiseMark)}

C10_Witness ==
    /\ TokenCollected /\ token = << "t" >>
    /\ \E i \in 1..Len(io) : io[i] = ReadEvent("getpass", RaiseMark)
    /\ TokenRead = ReadEvent("input_token", << "t", " " >>)

====
